---- MODULE Spec2Model ----
(***************************************************************************)
(* Model of the transformer encoder core of syntaxdot:                     *)
(*   syntaxdot-transformers/src/models/squeeze_bert/encoder.rs             *)
(*   syntaxdot-transformers/src/models/bert/layer.rs                       *)
(*   syntaxdot/src/model/bert.rs                                           *)
(* Every method call is one action; the call's inputs are drawn from       *)
(* small sets and its outcome (result plus a ghost log of what the call    *)
(* executed) is stored in `call`.                                          *)
(***************************************************************************)
EXTENDS Integers, Sequences, FiniteSets, TLC

VARIABLES
    config,  \* the configuration the object under test was constructed from
    obj,     \* the constructed object: its kind, the constructor's result, the variables it created
    call     \* the call in progress on obj: its inputs and its outcome

vars == <<config, obj, call>>

(***************************************************************************)
(* Bounds                                                                  *)
(***************************************************************************)
MaxLayers == 2
MaxHidden == 3
MaxBatch == 1
MaxSeq == 2
MaxSeed == 1

(***************************************************************************)
(* Option and Result                                                       *)
(***************************************************************************)
None == [some |-> FALSE]

Some(x) == [some |-> TRUE, v |-> x]

Ok(x) == [status |-> "Ok", v |-> x]

Err(e) == [status |-> "Err", e |-> e]

Panic(e) == [status |-> "Panic", e |-> e]

NoFault == [op |-> "none", k |-> 0]

Fault(op, k) == [op |-> op, k |-> k]

(***************************************************************************)
(* Concrete tensors: a shape, one value per index, and whether the tensor  *)
(* is attached to the autograd graph.                                      *)
(***************************************************************************)
MaxOf(sh) == IF Len(sh) = 0 THEN 0 ELSE CHOOSE m \in {sh[i] : i \in 1..Len(sh)} : \A i \in 1..Len(sh) : sh[i] <= m

Idx(sh) == {ix \in [1..Len(sh) -> 1..MaxOf(sh)] : \A i \in 1..Len(sh) : ix[i] <= sh[i]}

Tensor(sh, data, grad) == [shape |-> sh, data |-> data, grad |-> grad]

Values(t) == [shape |-> t.shape, data |-> t.data]

\* Tensor::f_permute: dimension i of the result is dimension dims[i] of the
\* input (dims is 0-based as in the code).
f_permute(t, dims, ge, fail) ==
    IF fail THEN Err("ComputationError")
    ELSE IF Len(dims) # Len(t.shape) THEN Err("ShapeError")
    ELSE LET sh == [i \in 1..Len(dims) |-> t.shape[dims[i] + 1]]
             src(ix) == [j \in 1..Len(dims) |-> ix[CHOOSE i \in 1..Len(dims) : dims[i] + 1 = j]]
         IN Ok(Tensor(sh, [ix \in Idx(sh) |-> t.data[src(ix)]], t.grad /\ ge))

\* Additive logits value of a masked position.
MaskedLogit == -10000

\* LogitsMask::from_bool_mask: [B, S] 0/1 mask -> additive [B, 1, 1, S] mask.
from_bool_mask(mask, fail) ==
    IF fail THEN Err("ComputationError")
    ELSE IF Len(mask.shape) # 2 THEN Err("ShapeError")
    ELSE LET sh == <<mask.shape[1], 1, 1, mask.shape[2]>>
         IN Ok(Tensor(sh, [ix \in Idx(sh) |-> IF mask.data[<<ix[1], ix[4]>>] = 1 THEN 0 ELSE MaskedLogit], FALSE))

(***************************************************************************)
(* LayerOutput                                                             *)
(***************************************************************************)
Embedding(t) == [tag |-> "Embedding", output |-> t]

EncoderWithAttention(output, attention) == [tag |-> "EncoderWithAttention", output |-> output, attention |-> attention]

\* LayerOutput::output_mut assignment
SetOutput(lo, t) == [lo EXCEPT !.output = t]

(***************************************************************************)
(* SqueezeBertLayer (squeeze_bert/layer.rs), in the internal [B, H, S]     *)
(* layout: hidden states in, hidden states of the same shape and the       *)
(* attention scores [B, heads, S, S] out.                                  *)
(***************************************************************************)
SqueezeBertLayer_new(index, cfg) == [index |-> index, config |-> cfg]

SumOver(f, S) ==
    LET RECURSIVE Acc(_)
        Acc(T) == IF T = {} THEN 0 ELSE LET x == CHOOSE y \in T : TRUE IN f[x] + Acc(T \ {x})
    IN Acc(S)

\* Key positions of batch element b the logits mask lets attend.
ActiveKeys(mask, b, S) == IF mask.some THEN {j \in 1..S : mask.v.data[<<b, 1, 1, j>>] = 0} ELSE 1..S

SqueezeBertLayer_forward_t(layer, hidden_states, attention_mask, train, ge, seed, fail) ==
    IF fail THEN Err("ComputationError")
    ELSE IF Len(hidden_states.shape) # 3 THEN Err("ShapeError")
    ELSE IF hidden_states.shape[2] # layer.config.hidden_size THEN Err("ShapeError")
    ELSE IF attention_mask.some /\ attention_mask.v.shape # <<hidden_states.shape[1], 1, 1, hidden_states.shape[3]>>
         THEN Err("ShapeError")
    ELSE LET B == hidden_states.shape[1]
             H == hidden_states.shape[2]
             S == hidden_states.shape[3]
             heads == layer.config.num_attention_heads
             hs == H \div heads
             noise == IF train THEN seed ELSE 0
             ctx(b, h) == SumOver([j \in 1..S |-> hidden_states.data[<<b, h, j>>]], ActiveKeys(attention_mask, b, S))
             out == [ix \in Idx(<<B, H, S>>) |->
                        hidden_states.data[ix] + ctx(ix[1], ix[2]) + layer.index + 1 + noise]
             bias(b, j) == IF attention_mask.some THEN attention_mask.v.data[<<b, 1, 1, j>>] ELSE 0
             score(b, n, i, j) ==
                 SumOver([h \in 1..H |-> hidden_states.data[<<b, h, i>>] + 2 * hidden_states.data[<<b, h, j>>]],
                         ((n - 1) * hs + 1)..(n * hs))
             att == [ix \in Idx(<<B, heads, S, S>>) |-> score(ix[1], ix[2], ix[3], ix[4]) + bias(ix[1], ix[4])]
         IN Ok(EncoderWithAttention(Tensor(<<B, H, S>>, out, ge), Tensor(<<B, heads, S, S>>, att, ge)))

(***************************************************************************)
(* SqueezeBertEncoder (squeeze_bert/encoder.rs)                            *)
(***************************************************************************)
SqueezeBertEncoder_new(cfg) ==
    Ok([layers |-> [layer \in 1..cfg.num_hidden_layers |-> SqueezeBertLayer_new(layer - 1, cfg)]])

\* The parameter store path vs / name.
PathJoin(vs, name) == IF vs = "" THEN name ELSE vs \o "." \o name

\* The variables SqueezeBertLayer::new creates under its path, by name.
layer_variables ==
    <<"post_attention.conv1d.bias", "post_attention.conv1d.weight",
      "post_attention.layer_norm.bias", "post_attention.layer_norm.weight",
      "attention.key.bias", "attention.key.weight",
      "attention.query.bias", "attention.query.weight",
      "attention.value.bias", "attention.value.weight",
      "intermediate.conv1d.bias", "intermediate.conv1d.weight",
      "output.conv1d.bias", "output.conv1d.weight",
      "output.layer_norm.bias", "output.layer_norm.weight">>

SqueezeBertLayer_new_variables(vs) == [k \in 1..Len(layer_variables) |-> PathJoin(vs, layer_variables[k])]

\* Mutant: the layer namespaces are numbered from 1.
RECURSIVE SqueezeBertEncoder_new_variables_FromOne(_, _, _)
SqueezeBertEncoder_new_variables_FromOne(vs, layer, cfg) ==
    IF layer >= cfg.num_hidden_layers THEN <<>>
    ELSE SqueezeBertLayer_new_variables(PathJoin(vs, "layer_" \o ToString(layer + 1)))
            \o SqueezeBertEncoder_new_variables_FromOne(vs, layer + 1, cfg)

\* The variables SqueezeBertEncoder::new creates in the store for the layers
\* layer, layer + 1, ... (lines 44-46), in creation order.
RECURSIVE SqueezeBertEncoder_new_variables(_, _, _)
SqueezeBertEncoder_new_variables(vs, layer, cfg) ==
    IF layer >= cfg.num_hidden_layers THEN <<>>
    ELSE SqueezeBertLayer_new_variables(PathJoin(vs, "layer_" \o ToString(layer)))
            \o SqueezeBertEncoder_new_variables(vs, layer + 1, cfg)

\* Mutant: a failing layer is skipped and the loop goes on.
RECURSIVE LayerLoop_GoesOn(_, _, _, _, _, _, _, _, _, _)
LayerLoop_GoesOn(layers, i, hidden_states, all_layer_outputs, executed, attention_mask, train, ge, seed, fault) ==
    IF i > Len(layers) THEN [result |-> Ok(all_layer_outputs), executed |-> executed]
    ELSE LET layer_output == SqueezeBertLayer_forward_t(layers[i], hidden_states, attention_mask, train, ge, seed,
                                                        fault = Fault("layer", i))
             log == Append(executed, [layer |-> layers[i].index, input |-> hidden_states, mask |-> attention_mask])
         IN IF layer_output.status # "Ok"
            THEN LayerLoop_GoesOn(layers, i + 1, hidden_states, all_layer_outputs, log, attention_mask, train, ge,
                                  seed, fault)
            ELSE LayerLoop_GoesOn(layers, i + 1, layer_output.v.output, Append(all_layer_outputs, layer_output.v),
                                  log, attention_mask, train, ge, seed, fault)

\* Mutant: every layer is run on the input of the first one.
RECURSIVE LayerLoop_Unchained(_, _, _, _, _, _, _, _, _, _)
LayerLoop_Unchained(layers, i, hidden_states, all_layer_outputs, executed, attention_mask, train, ge, seed, fault) ==
    IF i > Len(layers) THEN [result |-> Ok(all_layer_outputs), executed |-> executed]
    ELSE LET layer_output == SqueezeBertLayer_forward_t(layers[i], hidden_states, attention_mask, train, ge, seed,
                                                        fault = Fault("layer", i))
             log == Append(executed, [layer |-> layers[i].index, input |-> hidden_states, mask |-> attention_mask])
         IN IF layer_output.status # "Ok" THEN [result |-> layer_output, executed |-> log]
            ELSE LayerLoop_Unchained(layers, i + 1, hidden_states, Append(all_layer_outputs, layer_output.v),
                                     log, attention_mask, train, ge, seed, fault)

\* Mutant: the layers are run without the logits mask.
RECURSIVE LayerLoop_MaskDropped(_, _, _, _, _, _, _, _, _, _)
LayerLoop_MaskDropped(layers, i, hidden_states, all_layer_outputs, executed, attention_mask, train, ge, seed, fault) ==
    IF i > Len(layers) THEN [result |-> Ok(all_layer_outputs), executed |-> executed]
    ELSE LET layer_output == SqueezeBertLayer_forward_t(layers[i], hidden_states, None, train, ge, seed,
                                                        fault = Fault("layer", i))
             log == Append(executed, [layer |-> layers[i].index, input |-> hidden_states, mask |-> attention_mask])
         IN IF layer_output.status # "Ok" THEN [result |-> layer_output, executed |-> log]
            ELSE LayerLoop_MaskDropped(layers, i + 1, layer_output.v.output,
                                       Append(all_layer_outputs, layer_output.v), log, attention_mask, train, ge,
                                       seed, fault)

\* The layer loop of encode (lines 67-72). `executed` is the ghost log of the
\* layers whose forward_t was called, with the hidden state each one consumed.
RECURSIVE LayerLoop(_, _, _, _, _, _, _, _, _, _)
LayerLoop(layers, i, hidden_states, all_layer_outputs, executed, attention_mask, train, ge, seed, fault) ==
    IF i > Len(layers) THEN [result |-> Ok(all_layer_outputs), executed |-> executed]
    ELSE LET layer_output == SqueezeBertLayer_forward_t(layers[i], hidden_states, attention_mask, train, ge, seed,
                                                        fault = Fault("layer", i))
             log == Append(executed, [layer |-> layers[i].index, input |-> hidden_states, mask |-> attention_mask])
         IN IF layer_output.status # "Ok" THEN [result |-> layer_output, executed |-> log]
            ELSE LayerLoop(layers, i + 1, layer_output.v.output, Append(all_layer_outputs, layer_output.v),
                           log, attention_mask, train, ge, seed, fault)

\* Mutant: the hidden states are returned in the internal layout.
PermuteBack_Skipped(all_layer_outputs, i, ge, fault) == Ok(all_layer_outputs)

\* The conversion loop of encode (lines 75-77).
RECURSIVE PermuteBack(_, _, _, _)
PermuteBack(all_layer_outputs, i, ge, fault) ==
    IF i > Len(all_layer_outputs) THEN Ok(all_layer_outputs)
    ELSE LET p == f_permute(all_layer_outputs[i].output, <<0, 2, 1>>, ge, fault = Fault("permute_back", i))
         IN IF p.status # "Ok" THEN p
            ELSE PermuteBack([all_layer_outputs EXCEPT ![i] = SetOutput(@, p.v)], i + 1, ge, fault)

SqueezeBertEncoder_encode(self, input, attention_mask, train, ge, seed, fault) ==
    LET mask == IF attention_mask.some
                THEN LET m == from_bool_mask(attention_mask.v, fault = Fault("mask", 0))
                     IN IF m.status = "Ok" THEN Ok(Some(m.v)) ELSE m
                ELSE Ok(None)
    IN IF mask.status # "Ok" THEN [result |-> mask, executed |-> <<>>]
       ELSE LET hidden_states == f_permute(input, <<0, 2, 1>>, ge, fault = Fault("permute", 0))
            IN IF hidden_states.status # "Ok" THEN [result |-> hidden_states, executed |-> <<>>]
               ELSE LET looped == LayerLoop(self.layers, 1, hidden_states.v, <<Embedding(hidden_states.v)>>,
                                            <<>>, mask.v, train, ge, seed, fault)
                    IN IF looped.result.status # "Ok" THEN looped
                       ELSE [result |-> PermuteBack(looped.result.v, 1, ge, fault), executed |-> looped.executed]

\* Mutant: the embedding entry is not counted.
SqueezeBertEncoder_n_layers_LayersOnly(self) == Len(self.layers)

SqueezeBertEncoder_n_layers(self) == Len(self.layers) + 1

(***************************************************************************)
(* bert/layer.rs works on symbolic tensors: a tensor is the expression     *)
(* that produced it (operator, arguments, parameter name, scalar) and its  *)
(* shape. Two tensors are equal when the same computation produced them.   *)
(***************************************************************************)
\* The `?` operator: go on with the value, or return the failure.
AndThen(r, F(_)) == IF r.status = "Ok" THEN F(r.v) ELSE r

T(op, args, name, k, shape) == [op |-> op, args |-> args, name |-> name, k |-> k, shape |-> shape]

Leaf(name, shape) == T("input", <<>>, name, 0, shape)

NoTerm == Leaf("none", <<>>)

LastDim(sh) == sh[Len(sh)]

SetLastDim(sh, w) == [sh EXCEPT ![Len(sh)] = w]

Numel(sh) ==
    LET RECURSIVE Prod(_)
        Prod(i) == IF i > Len(sh) THEN 1 ELSE sh[i] * Prod(i + 1)
    IN Prod(1)

\* other can be added in place to a tensor of shape sh.
Broadcastable(other, sh) ==
    /\ Len(other) <= Len(sh)
    /\ \A i \in 1..Len(other) : other[i] = 1 \/ other[i] = sh[Len(sh) - Len(other) + i]

\* tch::nn::Linear::forward (infallible signature: a shape mismatch panics).
Linear_forward(lin, x) ==
    IF Len(x.shape) = 0 \/ LastDim(x.shape) # lin.in_features THEN Panic("shape mismatch")
    ELSE Ok(T("linear", <<x>>, lin.name, 0, SetLastDim(x.shape, lin.out_features)))

\* layers::Dropout::forward_t: identity unless training.
Dropout_forward_t(name, x, train, seed, fail) ==
    IF fail THEN Err("ComputationError")
    ELSE Ok(IF train THEN T("dropout", <<x>>, name, seed, x.shape) ELSE x)

\* layers::LayerNorm::forward over the last axis.
LayerNorm_forward(ln, x) ==
    IF Len(x.shape) = 0 \/ LastDim(x.shape) # ln.normalized_shape THEN Err("ShapeError")
    ELSE Ok(T("layer_norm", <<x>>, ln.name, 0, x.shape))

Activation_forward(x, fail) == IF fail THEN Err("ComputationError") ELSE Ok(T("activation", <<x>>, "hidden_act", 0, x.shape))

\* Tensor::f_add_ (in place: the receiver now holds the sum).
Sym_f_add_(x, other) ==
    IF ~Broadcastable(other.shape, x.shape) THEN Err("ShapeError") ELSE Ok(T("add", <<x, other>>, "", 0, x.shape))

Sym_f_div_scalar_(x, k) == Ok(T("div_sqrt", <<x>>, "", k, x.shape))

Sym_f_view_(x, shape) == IF Numel(shape) # Numel(x.shape) THEN Err("ShapeError") ELSE Ok(T("view", <<x>>, "", 0, shape))

Sym_f_permute(x, dims) ==
    IF Len(dims) # Len(x.shape) THEN Err("ShapeError")
    ELSE Ok(T("permute", <<x>>, "", 0, [i \in 1..Len(dims) |-> x.shape[dims[i] + 1]]))

\* Tensor::transpose(-1, -2)
Sym_transpose(x) ==
    LET n == Len(x.shape)
    IN T("transpose", <<x>>, "", 0, [i \in 1..n |-> IF i = n THEN x.shape[n - 1] ELSE IF i = n - 1 THEN x.shape[n] ELSE x.shape[i]])

Sym_f_matmul(a, b, fail) ==
    IF fail THEN Err("ComputationError")
    ELSE IF Len(a.shape) # Len(b.shape) \/ Len(a.shape) < 2 THEN Err("ShapeError")
    ELSE IF LastDim(a.shape) # b.shape[Len(b.shape) - 1] THEN Err("ShapeError")
    ELSE IF \E i \in 1..(Len(a.shape) - 2) : a.shape[i] # b.shape[i] THEN Err("ShapeError")
    ELSE Ok(T("matmul", <<a, b>>, "", 0, SetLastDim(a.shape, LastDim(b.shape))))

Sym_f_softmax(x) == Ok(T("softmax", <<x>>, "", -1, x.shape))

Sym_f_contiguous(x) == Ok(T("contiguous", <<x>>, "", 0, x.shape))

\* Operations that write into their receiver (f_add_, f_div_scalar_), and
\* operations whose result shares the storage of their argument.
InPlaceOps == {"add", "div_sqrt"}

ViewOps == {"view", "permute", "transpose", "contiguous"}

\* The tensor whose storage t lives in: the argument of a view or of an
\* in-place operation, t itself when an operation allocated it or when it
\* was handed in by the caller.
RECURSIVE Storage(_)
Storage(t) == IF t.op \in InPlaceOps \cup ViewOps THEN Storage(t.args[1]) ELSE t

\* The storages written to by the in-place operations of the computation of t.
RECURSIVE Written(_)
Written(t) ==
    (IF t.op \in InPlaceOps THEN {Storage(t.args[1])} ELSE {})
        \cup UNION {Written(t.args[i]) : i \in 1..Len(t.args)}

(***************************************************************************)
(* Parameter store: the variables a constructor created, in order.         *)
(***************************************************************************)
Var(name, shape) == [name |-> name, shape |-> shape]

\* bert_linear: creates <path>.weight [out, in] and <path>.bias [out].
bert_linear(path, in_features, out_features) ==
    [linear |-> [name |-> path, in_features |-> in_features, out_features |-> out_features],
     vars |-> <<Var(path \o ".weight", <<out_features, in_features>>), Var(path \o ".bias", <<out_features>>)>>]

LayerNorm_new(path, normalized_shape) ==
    [layer_norm |-> [name |-> path, normalized_shape |-> normalized_shape],
     vars |-> <<Var(path \o ".weight", <<normalized_shape>>), Var(path \o ".bias", <<normalized_shape>>)>>]

(***************************************************************************)
(* BertIntermediate                                                        *)
(***************************************************************************)
BertIntermediate_new(path, cfg) ==
    LET dense == bert_linear(path \o ".dense", cfg.hidden_size, cfg.intermediate_size)
    IN [new |-> Ok([dense |-> dense.linear]), vars |-> dense.vars]

BertIntermediate_forward(self, input, fail) ==
    AndThen(Linear_forward(self.dense, input), LAMBDA hidden_states : Activation_forward(hidden_states, fail))

(***************************************************************************)
(* BertOutput and BertSelfOutput                                           *)
(***************************************************************************)
BertOutput_new(path, cfg) ==
    LET dense == bert_linear(path \o ".dense", cfg.intermediate_size, cfg.hidden_size)
        layer_norm == LayerNorm_new(path \o ".layer_norm", cfg.hidden_size)
    IN [new |-> Ok([dense |-> dense.linear, layer_norm |-> layer_norm.layer_norm]),
        vars |-> dense.vars \o layer_norm.vars]

\* Mutant: the residual is added after the normalization.
BertOutput_forward_t_NormFirst(self, hidden_states, input, train, seed, fail) ==
    AndThen(Linear_forward(self.dense, hidden_states), LAMBDA projected :
    AndThen(Dropout_forward_t(self.dense.name, projected, train, seed, fail), LAMBDA dropped :
    AndThen(LayerNorm_forward(self.layer_norm, dropped), LAMBDA normed :
    Sym_f_add_(normed, input))))

BertOutput_forward_t(self, hidden_states, input, train, seed, fail) ==
    AndThen(Linear_forward(self.dense, hidden_states), LAMBDA projected :
    AndThen(Dropout_forward_t(self.dense.name, projected, train, seed, fail), LAMBDA dropped :
    AndThen(Sym_f_add_(dropped, input), LAMBDA summed :
    LayerNorm_forward(self.layer_norm, summed))))

BertSelfOutput_new(path, cfg) ==
    LET dense == bert_linear(path \o ".dense", cfg.hidden_size, cfg.hidden_size)
        layer_norm == LayerNorm_new(path \o ".layer_norm", cfg.hidden_size)
    IN [new |-> Ok([dense |-> dense.linear, layer_norm |-> layer_norm.layer_norm]),
        vars |-> dense.vars \o layer_norm.vars]

\* Mutant: the sum is accumulated into the residual tensor.
BertSelfOutput_forward_t_AddIntoResidual(self, hidden_states, input, train, seed, fail) ==
    AndThen(Linear_forward(self.dense, hidden_states), LAMBDA projected :
    AndThen(Dropout_forward_t(self.dense.name, projected, train, seed, fail), LAMBDA dropped :
    AndThen(Sym_f_add_(input, dropped), LAMBDA summed :
    LayerNorm_forward(self.layer_norm, summed))))

BertSelfOutput_forward_t(self, hidden_states, input, train, seed, fail) ==
    AndThen(Linear_forward(self.dense, hidden_states), LAMBDA projected :
    AndThen(Dropout_forward_t(self.dense.name, projected, train, seed, fail), LAMBDA dropped :
    AndThen(Sym_f_add_(dropped, input), LAMBDA summed :
    LayerNorm_forward(self.layer_norm, summed))))

(***************************************************************************)
(* BertSelfAttention                                                       *)
(***************************************************************************)
BertSelfAttention_new(path, cfg) ==
    LET attention_head_size == cfg.hidden_size \div cfg.num_attention_heads
        all_head_size == cfg.num_attention_heads * attention_head_size
        key == bert_linear(path \o ".key", cfg.hidden_size, all_head_size)
        query == bert_linear(path \o ".query", cfg.hidden_size, all_head_size)
        value == bert_linear(path \o ".value", cfg.hidden_size, all_head_size)
    IN [new |-> Ok([all_head_size |-> all_head_size,
                    attention_head_size |-> attention_head_size,
                    num_attention_heads |-> cfg.num_attention_heads,
                    key |-> key.linear, query |-> query.linear, value |-> value.linear]),
        vars |-> key.vars \o query.vars \o value.vars]

BertSelfAttention_transpose_for_scores(self, x) ==
    LET new_x_shape == SubSeq(x.shape, 1, Len(x.shape) - 1) \o <<self.num_attention_heads, self.attention_head_size>>
    IN AndThen(Sym_f_view_(x, new_x_shape), LAMBDA viewed : Sym_f_permute(viewed, <<0, 2, 1, 3>>))

\* The head merge of forward_t (lines 260-266).
MergeHeads(self, context_layer) ==
    AndThen(Sym_f_permute(context_layer, <<0, 2, 1, 3>>), LAMBDA permuted :
    AndThen(Sym_f_contiguous(permuted), LAMBDA contiguous :
    Sym_f_view_(contiguous, SubSeq(contiguous.shape, 1, Len(contiguous.shape) - 2) \o <<self.all_head_size>>)))

\* The raw attention scores (lines 244-249): scaled, then masked in place.
AttentionScores(self, query_layer, key_layer, attention_mask, fail) ==
    AndThen(Sym_f_matmul(query_layer, Sym_transpose(key_layer), fail), LAMBDA raw :
    AndThen(Sym_f_div_scalar_(raw, self.attention_head_size), LAMBDA scaled :
    IF attention_mask.some THEN Sym_f_add_(scaled, attention_mask.v) ELSE Ok(scaled)))

\* Mutant: the attention probabilities are returned, as the doc comment says.
BertSelfAttention_forward_t_Probabilities(self, hidden_states, attention_mask, train, seed, fail) ==
    AndThen(Linear_forward(self.key, hidden_states), LAMBDA mixed_key_layer :
    AndThen(Linear_forward(self.query, hidden_states), LAMBDA mixed_query_layer :
    AndThen(Linear_forward(self.value, hidden_states), LAMBDA mixed_value_layer :
    AndThen(BertSelfAttention_transpose_for_scores(self, mixed_query_layer), LAMBDA query_layer :
    AndThen(BertSelfAttention_transpose_for_scores(self, mixed_key_layer), LAMBDA key_layer :
    AndThen(BertSelfAttention_transpose_for_scores(self, mixed_value_layer), LAMBDA value_layer :
    AndThen(AttentionScores(self, query_layer, key_layer, attention_mask, fail), LAMBDA attention_scores :
    AndThen(Sym_f_softmax(attention_scores), LAMBDA probs :
    AndThen(Dropout_forward_t("attention_probs", probs, train, seed, FALSE), LAMBDA attention_probs :
    AndThen(Sym_f_matmul(attention_probs, value_layer, FALSE), LAMBDA context :
    AndThen(MergeHeads(self, context), LAMBDA context_layer :
    Ok(<<context_layer, attention_probs>>))))))))))))

\* Returns Ok(<<context_layer, attention_scores>>).
BertSelfAttention_forward_t(self, hidden_states, attention_mask, train, seed, fail) ==
    AndThen(Linear_forward(self.key, hidden_states), LAMBDA mixed_key_layer :
    AndThen(Linear_forward(self.query, hidden_states), LAMBDA mixed_query_layer :
    AndThen(Linear_forward(self.value, hidden_states), LAMBDA mixed_value_layer :
    AndThen(BertSelfAttention_transpose_for_scores(self, mixed_query_layer), LAMBDA query_layer :
    AndThen(BertSelfAttention_transpose_for_scores(self, mixed_key_layer), LAMBDA key_layer :
    AndThen(BertSelfAttention_transpose_for_scores(self, mixed_value_layer), LAMBDA value_layer :
    AndThen(AttentionScores(self, query_layer, key_layer, attention_mask, fail), LAMBDA attention_scores :
    AndThen(Sym_f_softmax(attention_scores), LAMBDA probs :
    AndThen(Dropout_forward_t("attention_probs", probs, train, seed, FALSE), LAMBDA attention_probs :
    AndThen(Sym_f_matmul(attention_probs, value_layer, FALSE), LAMBDA context :
    AndThen(MergeHeads(self, context), LAMBDA context_layer :
    Ok(<<context_layer, attention_scores>>))))))))))))

(***************************************************************************)
(* Head splitting and merging on concrete tensors, element by element.     *)
(***************************************************************************)
\* Row-major offset of index ix in a tensor of shape sh.
Flat(ix, sh) ==
    LET RECURSIVE Acc(_)
        Acc(i) == IF i = 0 THEN 0 ELSE Acc(i - 1) * sh[i] + (ix[i] - 1)
    IN Acc(Len(sh))

\* Tensor::f_view_: the same elements in row-major order under a new shape.
f_view_(t, shape) ==
    IF Numel(shape) # Numel(t.shape) THEN Err("ShapeError")
    ELSE Ok(Tensor(shape,
                   [ix \in Idx(shape) |-> t.data[CHOOSE jx \in Idx(t.shape) : Flat(jx, t.shape) = Flat(ix, shape)]],
                   t.grad))

\* Tensor::f_contiguous: the same elements, laid out in index order.
f_contiguous(t) == Ok(t)

\* BertSelfAttention::transpose_for_scores (lines 271-277).
transpose_for_scores(self, x) ==
    LET new_x_shape == SubSeq(x.shape, 1, Len(x.shape) - 1) \o <<self.num_attention_heads, self.attention_head_size>>
    IN AndThen(f_view_(x, new_x_shape), LAMBDA viewed : f_permute(viewed, <<0, 2, 1, 3>>, TRUE, FALSE))

\* Mutant: the heads are merged without moving the head axis back.
merge_heads_NoPermute(self, context_layer) ==
    f_view_(context_layer, <<context_layer.shape[1], context_layer.shape[3], self.all_head_size>>)

\* The head merge of forward_t (lines 260-266) on a [B, heads, S, head_size] tensor.
merge_heads(self, context_layer) ==
    AndThen(f_permute(context_layer, <<0, 2, 1, 3>>, TRUE, FALSE), LAMBDA permuted :
    AndThen(f_contiguous(permuted), LAMBDA contiguous :
    f_view_(contiguous, SubSeq(contiguous.shape, 1, Len(contiguous.shape) - 2) \o <<self.all_head_size>>)))

(***************************************************************************)
(* BertLayer                                                               *)
(***************************************************************************)
BertLayer_new(path, cfg) ==
    LET attention == BertSelfAttention_new(path \o ".attention.self", cfg)
        post_attention == BertSelfOutput_new(path \o ".attention.output", cfg)
        intermediate == BertIntermediate_new(path \o ".intermediate", cfg)
        output == BertOutput_new(path \o ".output", cfg)
    IN [new |-> Ok([attention |-> attention.new.v, post_attention |-> post_attention.new.v,
                    intermediate |-> intermediate.new.v, output |-> output.new.v]),
        vars |-> attention.vars \o post_attention.vars \o intermediate.vars \o output.vars]

Sublayer(name, hidden, residual, out) == [sublayer |-> name, hidden |-> hidden, residual |-> residual, out |-> out]

\* Mutant: the output sublayer gets the layer's input as residual.
BertLayer_forward_t_InputResidual(self, input, attention_mask, train, seed, fault) ==
    LET att == BertSelfAttention_forward_t(self.attention, input, attention_mask, train, seed, fault = "attention")
        log1 == <<Sublayer("attention", input, NoTerm, att)>>
    IN IF att.status # "Ok" THEN [result |-> att, log |-> log1]
       ELSE
    LET post == BertSelfOutput_forward_t(self.post_attention, att.v[1], input, train, seed, fault = "post_attention")
        log2 == Append(log1, Sublayer("post_attention", att.v[1], input, post))
    IN IF post.status # "Ok" THEN [result |-> post, log |-> log2]
       ELSE
    LET inter == BertIntermediate_forward(self.intermediate, post.v, fault = "intermediate")
        log3 == Append(log2, Sublayer("intermediate", post.v, NoTerm, inter))
    IN IF inter.status # "Ok" THEN [result |-> inter, log |-> log3]
       ELSE
    LET out == BertOutput_forward_t(self.output, inter.v, input, train, seed, fault = "output")
        log4 == Append(log3, Sublayer("output", inter.v, input, out))
    IN IF out.status # "Ok" THEN [result |-> out, log |-> log4]
       ELSE [result |-> Ok(EncoderWithAttention(out.v, att.v[2])), log |-> log4]

\* `log` is the ghost record of the sublayers invoked, each with the tensors
\* it received and the result it gave.
BertLayer_forward_t(self, input, attention_mask, train, seed, fault) ==
    LET att == BertSelfAttention_forward_t(self.attention, input, attention_mask, train, seed, fault = "attention")
        log1 == <<Sublayer("attention", input, NoTerm, att)>>
    IN IF att.status # "Ok" THEN [result |-> att, log |-> log1]
       ELSE
    LET attention_output == att.v[1]
        attention == att.v[2]
        post == BertSelfOutput_forward_t(self.post_attention, attention_output, input, train, seed,
                                         fault = "post_attention")
        log2 == Append(log1, Sublayer("post_attention", attention_output, input, post))
    IN IF post.status # "Ok" THEN [result |-> post, log |-> log2]
       ELSE
    LET post_attention_output == post.v
        inter == BertIntermediate_forward(self.intermediate, post_attention_output, fault = "intermediate")
        log3 == Append(log2, Sublayer("intermediate", post_attention_output, NoTerm, inter))
    IN IF inter.status # "Ok" THEN [result |-> inter, log |-> log3]
       ELSE
    LET intermediate_output == inter.v
        out == BertOutput_forward_t(self.output, intermediate_output, post_attention_output, train, seed,
                                    fault = "output")
        log4 == Append(log3, Sublayer("output", intermediate_output, post_attention_output, out))
    IN IF out.status # "Ok" THEN [result |-> out, log |-> log4]
       ELSE [result |-> Ok(EncoderWithAttention(out.v, attention)), log |-> log4]

(***************************************************************************)
(* Model facade (syntaxdot/src/model/bert.rs)                              *)
(***************************************************************************)
Families == {"Albert", "Bert", "SqueezeAlbert", "SqueezeBert", "XlmRoberta"}

PositionEmbeddings == {[kind |-> "Model", normalize |-> FALSE]} \cup [kind : {"Sinusoidal"}, normalize : BOOLEAN]

BertEmbeddingLayer_new(pretrain_config, position_embeddings) ==
    LET sinusoidal == Ok([variant |-> "Sinusoidal",
                          normalize |-> IF position_embeddings.normalize THEN Some(2) ELSE None,
                          hidden_size |-> pretrain_config.hidden_size])
        learned(variant) == Ok([variant |-> variant, normalize |-> None, hidden_size |-> pretrain_config.hidden_size])
    IN CASE pretrain_config.family = "Albert" /\ position_embeddings.kind = "Model" -> learned("Albert")
         [] pretrain_config.family = "Albert" /\ position_embeddings.kind = "Sinusoidal" -> sinusoidal
         [] pretrain_config.family = "Bert" /\ position_embeddings.kind = "Model" -> learned("Bert")
         [] pretrain_config.family = "Bert" /\ position_embeddings.kind = "Sinusoidal" -> sinusoidal
         [] pretrain_config.family = "SqueezeAlbert" /\ position_embeddings.kind = "Model" -> learned("Albert")
         [] pretrain_config.family = "SqueezeAlbert" /\ position_embeddings.kind = "Sinusoidal" -> sinusoidal
         [] pretrain_config.family = "SqueezeBert" /\ position_embeddings.kind = "Model" -> learned("Bert")
         [] pretrain_config.family = "SqueezeBert" /\ position_embeddings.kind = "Sinusoidal" -> sinusoidal
         [] pretrain_config.family = "XlmRoberta" /\ position_embeddings.kind = "Model" -> learned("Roberta")
         [] pretrain_config.family = "XlmRoberta" /\ position_embeddings.kind = "Sinusoidal" -> Panic("unreachable")

\* The embedding variants' forward_t: token ids [B, S] -> [B, S, H].
BertEmbeddingLayer_forward_t(self, input, train, ge, seed) ==
    LET sh == <<input.shape[1], input.shape[2], self.hidden_size>>
        position(s) == IF self.variant = "Sinusoidal" THEN 2 * s ELSE s
        noise == IF train THEN seed ELSE 0
    IN Tensor(sh, [ix \in Idx(sh) |-> 100 * input.data[<<ix[1], ix[2]>>] + 10 * position(ix[2]) + ix[3] + noise], ge)

\* The encoders of the other families (albert, bert, squeeze_albert): a
\* stack of num_hidden_layers layers under the contract of the encoder stack.
FamilyEncoder_new(cfg) == SqueezeBertEncoder_new(cfg)

FamilyEncoder_encode(self, input, attention_mask, train, ge, seed) ==
    SqueezeBertEncoder_encode(self, input, attention_mask, train, ge, seed, NoFault).result

FamilyEncoder_n_layers(self) == Len(self.layers) + 1

\* Mutant: every family gets an encoder variant of its own.
Encoder_new_OwnVariant(pretrain_config) ==
    AndThen(FamilyEncoder_new(pretrain_config), LAMBDA e : Ok([variant |-> pretrain_config.family, encoder |-> e]))

Encoder_new(pretrain_config) ==
    CASE pretrain_config.family = "Albert" ->
            AndThen(FamilyEncoder_new(pretrain_config), LAMBDA e : Ok([variant |-> "Albert", encoder |-> e]))
      [] pretrain_config.family = "Bert" ->
            AndThen(FamilyEncoder_new(pretrain_config), LAMBDA e : Ok([variant |-> "Bert", encoder |-> e]))
      [] pretrain_config.family = "SqueezeAlbert" ->
            AndThen(FamilyEncoder_new(pretrain_config), LAMBDA e : Ok([variant |-> "SqueezeAlbert", encoder |-> e]))
      [] pretrain_config.family = "SqueezeBert" ->
            AndThen(SqueezeBertEncoder_new(pretrain_config), LAMBDA e : Ok([variant |-> "SqueezeBert", encoder |-> e]))
      [] pretrain_config.family = "XlmRoberta" ->
            AndThen(FamilyEncoder_new(pretrain_config), LAMBDA e : Ok([variant |-> "Bert", encoder |-> e]))

Encoder_encode(self, input, attention_mask, train, ge, seed) ==
    IF self.variant = "SqueezeBert"
    THEN SqueezeBertEncoder_encode(self.encoder, input, attention_mask, train, ge, seed, NoFault).result
    ELSE FamilyEncoder_encode(self.encoder, input, attention_mask, train, ge, seed)

Encoder_n_layers(self) ==
    IF self.variant = "SqueezeBert" THEN SqueezeBertEncoder_n_layers(self.encoder)
    ELSE FamilyEncoder_n_layers(self.encoder)

\* SequenceClassifiers::new keeps the number of layers it is to weigh.
SequenceClassifiers_new(pretrain_config, n_layers) == [n_layers |-> n_layers]

BertModel_new(pretrain_config, position_embeddings) ==
    AndThen(BertEmbeddingLayer_new(pretrain_config, position_embeddings), LAMBDA embeddings :
    AndThen(Encoder_new(pretrain_config), LAMBDA encoder :
    Ok([embeddings |-> embeddings,
        encoder |-> encoder,
        seq_classifiers |-> SequenceClassifiers_new(pretrain_config, Encoder_n_layers(encoder))])))

\* tch::no_grad: the closure runs with gradient tracking off, whatever the
\* mode around it.
no_grad(ge) == FALSE

\* Dropout::forward_t on concrete tensors: identity unless training; when
\* training the seed picks the elements zeroed and the others are rescaled.
TensorDropout_forward_t(x, train, ge, seed) ==
    IF ~train THEN Tensor(x.shape, x.data, x.grad /\ ge)
    ELSE Tensor(x.shape,
                [ix \in Idx(x.shape) |->
                    IF (SumOver(ix, 1..Len(ix)) + seed) % 2 = 0 THEN 0 ELSE 2 * x.data[ix]],
                x.grad /\ ge)

\* The gradient mode each stage of encode and loss runs in, given the mode
\* ge of the caller.
EmbeddingsStageMode(freeze_layers, ge) == IF freeze_layers.embeddings THEN no_grad(ge) ELSE ge

\* Mutant: the encoder stage is gated by the embeddings flag.
EncoderStageMode_EmbeddingsFlag(freeze_layers, ge) == IF freeze_layers.embeddings THEN no_grad(ge) ELSE ge

EncoderStageMode(freeze_layers, ge) == IF freeze_layers.encoder THEN no_grad(ge) ELSE ge

LayersDropoutStageMode(freeze_layers, ge) == IF freeze_layers.classifiers THEN no_grad(ge) ELSE ge

\* Mutant: the heads' loss is never gated.
LossStageMode_Ungated(freeze_layers, ge) == ge

LossStageMode(freeze_layers, ge) == IF freeze_layers.classifiers THEN no_grad(ge) ELSE ge

Stage(name, grad) == [stage |-> name, grad |-> grad]

\* Mutant: the Embedding entry is left out of the layer dropout.
LayersDropoutLoop_SkipEmbedding(encoded, stages, train, mode, seed) ==
    IF encoded.status # "Ok" THEN [result |-> Panic(encoded.e), stages |-> stages]
    ELSE [result |-> Ok([i \in 1..Len(encoded.v) |->
                            IF encoded.v[i].tag = "Embedding" THEN encoded.v[i]
                            ELSE SetOutput(encoded.v[i],
                                           TensorDropout_forward_t(encoded.v[i].output, train, mode, seed + i))]),
          stages |-> stages \o [i \in 2..Len(encoded.v) |-> Stage("layers_dropout", mode)]]

\* The layer dropout over the trace (lines 242-248), after the stages run so far.
LayersDropoutLoop(encoded, stages, train, mode, seed) ==
    IF encoded.status # "Ok" THEN [result |-> Panic(encoded.e), stages |-> stages]
    ELSE [result |-> Ok([i \in 1..Len(encoded.v) |->
                            SetOutput(encoded.v[i],
                                      TensorDropout_forward_t(encoded.v[i].output, train, mode, seed + i))]),
          stages |-> stages \o [i \in 1..Len(encoded.v) |-> Stage("layers_dropout", mode)]]

\* The encoder stage and what follows it (lines 236-258).
EncodeEmbeds(self, embeds, attention_mask, train, freeze_layers, ge, seed, stages) ==
    LayersDropoutLoop(Encoder_encode(self.encoder, embeds, Some(attention_mask), train,
                                     EncoderStageMode(freeze_layers, ge), seed),
                      Append(stages, Stage("encoder", EncoderStageMode(freeze_layers, ge))),
                      train, LayersDropoutStageMode(freeze_layers, ge), seed)

\* Mutant: a frozen encoder stage is run without the attention mask.
BertModel_encode_FrozenUnmasked(self, inputs, attention_mask, train, freeze_layers, ge, seed) ==
    LayersDropoutLoop(Encoder_encode(self.encoder,
                                     BertEmbeddingLayer_forward_t(self.embeddings, inputs, train,
                                                                  EmbeddingsStageMode(freeze_layers, ge), seed),
                                     IF freeze_layers.encoder THEN None ELSE Some(attention_mask), train,
                                     EncoderStageMode(freeze_layers, ge), seed),
                      <<Stage("embeddings", EmbeddingsStageMode(freeze_layers, ge)),
                        Stage("encoder", EncoderStageMode(freeze_layers, ge))>>,
                      train, LayersDropoutStageMode(freeze_layers, ge), seed)

\* `stages` is the ghost record of the stages run and the gradient mode of each.
BertModel_encode(self, inputs, attention_mask, train, freeze_layers, ge, seed) ==
    EncodeEmbeds(self,
                 BertEmbeddingLayer_forward_t(self.embeddings, inputs, train,
                                              EmbeddingsStageMode(freeze_layers, ge), seed),
                 attention_mask, train, freeze_layers, ge, seed,
                 <<Stage("embeddings", EmbeddingsStageMode(freeze_layers, ge))>>)

\* The classification heads run on the encoding, in gradient mode `mode`;
\* what they return is theirs, only the layers they were given are kept.
WithHeads(encoding, name, mode) ==
    IF encoding.result.status # "Ok" THEN encoding
    ELSE [result |-> Ok([heads |-> name, n_layers |-> Len(encoding.result.v)]),
          stages |-> Append(encoding.stages, Stage(name, mode))]

BertModel_logits(self, inputs, attention_mask, train, freeze_layers, ge, seed) ==
    WithHeads(BertModel_encode(self, inputs, attention_mask, train, freeze_layers, ge, seed),
              "seq_classifiers.forward_t", ge)

BertModel_loss(self, inputs, attention_mask, train, freeze_layers, ge, seed) ==
    WithHeads(BertModel_encode(self, inputs, attention_mask, train, freeze_layers, ge, seed),
              "seq_classifiers.loss", LossStageMode(freeze_layers, ge))

AllFrozen == [embeddings |-> TRUE, encoder |-> TRUE, classifiers |-> TRUE]

BertModel_top_k(self, inputs, attention_mask, ge) ==
    WithHeads(BertModel_encode(self, inputs, attention_mask, FALSE, AllFrozen, ge, 0), "seq_classifiers.top_k", ge)

(***************************************************************************)
(* Inputs                                                                  *)
(***************************************************************************)
Pow10(n) == IF n = 0 THEN 1 ELSE IF n = 1 THEN 10 ELSE IF n = 2 THEN 100 ELSE 1000

\* A tensor whose element at index <<i, j, k>> reads ijk: every position
\* holds a different value.
PositionCoded(sh, grad) ==
    Tensor(sh, [ix \in Idx(sh) |-> SumOver([k \in 1..Len(sh) |-> ix[k] * Pow10(Len(sh) - k)], 1..Len(sh))], grad)

\* Shapes of the hidden states handed to an encoder of width hidden_size:
\* of that width or of the largest one, and malformed ones of rank 2.
HiddenShapes(hidden_size) ==
    {<<b, s, h>> : b \in 1..MaxBatch, s \in 1..MaxSeq, h \in {hidden_size, MaxHidden}} \cup {<<1, s>> : s \in 1..MaxSeq}

HiddenInputs(hidden_size) == {PositionCoded(sh, TRUE) : sh \in HiddenShapes(hidden_size)}

\* Padding-style boolean mask: the first n positions of every sequence active.
BoolMask(B, S, n) == Tensor(<<B, S>>, [ix \in Idx(<<B, S>>) |-> IF ix[2] <= n THEN 1 ELSE 0], FALSE)

MasksFor(input) == {None} \cup {Some(BoolMask(input.shape[1], input.shape[2], n)) : n \in 0..input.shape[2]}

\* train = FALSE never draws a dropout seed.
TrainModes == {[train |-> FALSE, seed |-> 0]} \cup {[train |-> TRUE, seed |-> s] : s \in 1..MaxSeed}

EncodeFaults(L) ==
    {Fault("mask", 0), Fault("permute", 0)}
        \cup {Fault("layer", k) : k \in 1..L} \cup {Fault("permute_back", k) : k \in 1..(L + 1)}

\* A call of encode: without a fault in either training mode and gradient
\* mode, or with one operation of the backend failing.
EncodeScenarios(L) ==
    {[train |-> m.train, seed |-> m.seed, ge |-> g, fault |-> NoFault] : m \in TrainModes, g \in BOOLEAN}
        \cup {[train |-> FALSE, seed |-> 0, ge |-> TRUE, fault |-> f] : f \in EncodeFaults(L)}

\* Configuration records; intermediate_size is four times the hidden size,
\* as in the published models.
ConfigRecords(families) ==
    {c \in [family : families, num_hidden_layers : 0..MaxLayers, hidden_size : 1..MaxHidden,
            num_attention_heads : 1..MaxHidden, intermediate_size : {4 * h : h \in 1..MaxHidden},
            position_embeddings : {[kind |-> "Model", normalize |-> FALSE]}] :
        c.intermediate_size = 4 * c.hidden_size}

Configs(families, heads_ok(_, _)) ==
    {c \in ConfigRecords(families) : heads_ok(c.hidden_size, c.num_attention_heads)}

Divides(h, n) == h % n = 0

SqueezeBertConfigs == Configs({"SqueezeBert"}, Divides)

\* Configurations as BertSelfAttention::new and BertLayer::new may receive them.
AtMost(h, n) == n <= h

\* Configurations as BertSelfAttention::new and BertLayer::new may receive
\* them: nothing before the constructor checks the head count against the width.
BertLayerConfigs == {c \in Configs({"Bert"}, AtMost) : c.num_hidden_layers = 1}

\* Configurations of the facade, with the position embeddings chosen beside
\* them: every family, with up to two layers.
FacadeConfigs ==
    {c \in ConfigRecords(Families) : c.hidden_size = 2 /\ c.num_attention_heads = 1 /\ c.num_hidden_layers <= 2}

\* Token ids [B, S].
TokenInputs == {PositionCoded(<<b, s>>, FALSE) : b \in 1..MaxBatch, s \in 1..MaxSeq}

\* The facade always passes a mask; at least the first position is active.
AttentionMasksFor(inputs) == {BoolMask(inputs.shape[1], inputs.shape[2], n) : n \in 1..inputs.shape[2]}

FreezeLayers == [embeddings : BOOLEAN, encoder : BOOLEAN, classifiers : BOOLEAN]

NoneFrozen == [embeddings |-> FALSE, encoder |-> FALSE, classifiers |-> FALSE]

\* A facade call: under gradient tracking with any flags in either training
\* mode, or inside a caller's no_grad scope at inference.
FacadeScenarios ==
    {[train |-> m.train, seed |-> m.seed, freeze_layers |-> f, ge |-> TRUE] : m \in TrainModes, f \in FreezeLayers}
        \cup {[train |-> FALSE, seed |-> 0, freeze_layers |-> f, ge |-> FALSE] :
                f \in {NoneFrozen, [embeddings |-> TRUE, encoder |-> TRUE, classifiers |-> TRUE]}}

\* The batches logits, loss and top_k are called on: one sequence, no padding.
SingleInputs == {PositionCoded(<<1, s>>, FALSE) : s \in 1..MaxSeq}

FullMask(inputs) == BoolMask(inputs.shape[1], inputs.shape[2], inputs.shape[2])

\* The smallest configuration with several heads of several elements each.
TwoHeadsOfTwo ==
    [family |-> "Bert", num_hidden_layers |-> 1, hidden_size |-> 4, num_attention_heads |-> 2,
     intermediate_size |-> 16, position_embeddings |-> [kind |-> "Model", normalize |-> FALSE]]

BertSelfAttentionConfigs == BertLayerConfigs \cup {TwoHeadsOfTwo}

\* Shapes of the tensors handed to transpose_for_scores: any width up to
\* the largest, and the width the projections of this object give.
SplitShapes(all_head_size) ==
    {<<b, s, w>> : b \in 1..MaxBatch, s \in 1..MaxSeq, w \in (1..MaxHidden) \cup {all_head_size}}

SymShapes == {<<b, s, w>> : b \in 1..MaxBatch, s \in 1..MaxSeq, w \in 1..MaxHidden}

SymMasksFor(sh) == {None, Some(Leaf("logits_mask", <<sh[1], 1, 1, sh[2]>>))}

LayerFaults == {"none", "attention", "post_attention", "intermediate", "output"}

(***************************************************************************)
(* State machine                                                           *)
(***************************************************************************)
NoObject == [kind |-> "none"]

NoConfig == [family |-> "none"]

\* No call in progress: the caller is free to make the next one.
NoCall == [op |-> "none"]

Object(kind, new, created) == [kind |-> kind, new |-> new, vars |-> created]

Init == config = NoConfig /\ obj = NoObject /\ call = NoCall

NewSqueezeBertEncoder ==
    /\ obj = NoObject
    /\ \E cfg \in SqueezeBertConfigs :
          /\ config' = cfg
          /\ obj' = Object("SqueezeBertEncoder", SqueezeBertEncoder_new(cfg),
                           SqueezeBertEncoder_new_variables("", 0, cfg))
          /\ call' = NoCall

CallSqueezeBertEncoderEncode ==
    /\ obj.kind = "SqueezeBertEncoder"
    /\ obj.new.status = "Ok"
    /\ call = NoCall
    /\ \E input \in HiddenInputs(config.hidden_size), sc \in EncodeScenarios(Len(obj.new.v.layers)) :
       \E attention_mask \in MasksFor(input) :
          call' = [op |-> "SqueezeBertEncoder::encode", input |-> input, attention_mask |-> attention_mask,
                   train |-> sc.train, ge |-> sc.ge, seed |-> sc.seed, fault |-> sc.fault,
                   out |-> SqueezeBertEncoder_encode(obj.new.v, input, attention_mask, sc.train, sc.ge, sc.seed,
                                                     sc.fault)]
    /\ UNCHANGED <<config, obj>>

CallSqueezeBertEncoderNLayers ==
    /\ obj.kind = "SqueezeBertEncoder"
    /\ obj.new.status = "Ok"
    /\ call = NoCall
    /\ call' = [op |-> "SqueezeBertEncoder::n_layers", out |-> SqueezeBertEncoder_n_layers(obj.new.v)]
    /\ UNCHANGED <<config, obj>>

NewBertSelfAttention ==
    /\ obj = NoObject
    /\ \E cfg \in BertSelfAttentionConfigs :
          LET made == BertSelfAttention_new("self", cfg)
          IN /\ config' = cfg
             /\ obj' = Object("BertSelfAttention", made.new, made.vars)
             /\ call' = NoCall

CallBertSelfAttentionForward ==
    /\ obj.kind = "BertSelfAttention"
    /\ obj.new.status = "Ok"
    /\ call = NoCall
    /\ \E sh \in SymShapes, mode \in TrainModes, fail \in BOOLEAN :
       \E attention_mask \in SymMasksFor(sh) :
          LET hidden_states == Leaf("hidden_states", sh)
          IN call' = [op |-> "BertSelfAttention::forward_t", hidden_states |-> hidden_states,
                      attention_mask |-> attention_mask, train |-> mode.train, seed |-> mode.seed, fail |-> fail,
                      out |-> BertSelfAttention_forward_t(obj.new.v, hidden_states, attention_mask, mode.train,
                                                          mode.seed, fail)]
    /\ UNCHANGED <<config, obj>>

\* The head split of a projected tensor and the merge of what it gives.
CallTransposeForScores ==
    /\ obj.kind = "BertSelfAttention"
    /\ obj.new.status = "Ok"
    /\ call = NoCall
    /\ \E sh \in SplitShapes(obj.new.v.all_head_size) :
          LET x == PositionCoded(sh, TRUE)
              split == transpose_for_scores(obj.new.v, x)
          IN call' = [op |-> "BertSelfAttention::transpose_for_scores", x |-> x, out |-> split,
                      merged |-> AndThen(split, LAMBDA heads : merge_heads(obj.new.v, heads))]
    /\ UNCHANGED <<config, obj>>

NewBertLayer ==
    /\ obj = NoObject
    /\ \E cfg \in BertLayerConfigs :
          LET made == BertLayer_new("layer_0", cfg)
          IN /\ config' = cfg
             /\ obj' = Object("BertLayer", made.new, made.vars)
             /\ call' = NoCall

CallBertLayerForward ==
    /\ obj.kind = "BertLayer"
    /\ obj.new.status = "Ok"
    /\ call = NoCall
    /\ \E sh \in SymShapes, mode \in TrainModes, fault \in LayerFaults :
       \E attention_mask \in SymMasksFor(sh) :
          LET input == Leaf("hidden_states", sh)
          IN call' = [op |-> "BertLayer::forward_t", input |-> input, attention_mask |-> attention_mask,
                      train |-> mode.train, seed |-> mode.seed, fault |-> fault,
                      out |-> BertLayer_forward_t(obj.new.v, input, attention_mask, mode.train, mode.seed, fault)]
    /\ UNCHANGED <<config, obj>>

\* The tensors handed to a residual-and-normalize sublayer called on its own:
\* the transformed tensor has the width of either projection input.
CallBertOutputForward ==
    /\ obj.kind = "BertLayer"
    /\ obj.new.status = "Ok"
    /\ call = NoCall
    /\ \E sh \in SymShapes, w \in {config.hidden_size, config.intermediate_size}, mode \in TrainModes, fail \in BOOLEAN :
          LET hidden_states == Leaf("transformed", SetLastDim(sh, w))
              input == Leaf("residual", sh)
          IN call' = [op |-> "BertOutput::forward_t", hidden_states |-> hidden_states, input |-> input,
                      train |-> mode.train, seed |-> mode.seed, fail |-> fail,
                      out |-> BertOutput_forward_t(obj.new.v.output, hidden_states, input, mode.train, mode.seed, fail)]
    /\ UNCHANGED <<config, obj>>

CallBertSelfOutputForward ==
    /\ obj.kind = "BertLayer"
    /\ obj.new.status = "Ok"
    /\ call = NoCall
    /\ \E sh \in SymShapes, w \in {config.hidden_size, config.intermediate_size}, mode \in TrainModes, fail \in BOOLEAN :
          LET hidden_states == Leaf("transformed", SetLastDim(sh, w))
              input == Leaf("residual", sh)
          IN call' = [op |-> "BertSelfOutput::forward_t", hidden_states |-> hidden_states, input |-> input,
                      train |-> mode.train, seed |-> mode.seed, fail |-> fail,
                      out |-> BertSelfOutput_forward_t(obj.new.v.post_attention, hidden_states, input,
                                                       mode.train, mode.seed, fail)]
    /\ UNCHANGED <<config, obj>>

NewBertModel ==
    /\ obj = NoObject
    /\ \E cfg \in FacadeConfigs, position_embeddings \in PositionEmbeddings :
          /\ config' = [cfg EXCEPT !.position_embeddings = position_embeddings]
          /\ obj' = Object("BertModel", BertModel_new(cfg, position_embeddings), <<>>)
          /\ call' = NoCall

FacadeCall(op, inputs, attention_mask, train, freeze_layers, ge, seed, out) ==
    [op |-> op, inputs |-> inputs, attention_mask |-> attention_mask, train |-> train,
     freeze_layers |-> freeze_layers, ge |-> ge, seed |-> seed, out |-> out]

CallBertModelEncode ==
    /\ obj.kind = "BertModel"
    /\ obj.new.status = "Ok"
    /\ call = NoCall
    /\ \E inputs \in TokenInputs, sc \in FacadeScenarios :
       \E attention_mask \in AttentionMasksFor(inputs) :
          call' = FacadeCall("BertModel::encode", inputs, attention_mask, sc.train, sc.freeze_layers, sc.ge, sc.seed,
                             BertModel_encode(obj.new.v, inputs, attention_mask, sc.train, sc.freeze_layers, sc.ge,
                                              sc.seed))
    /\ UNCHANGED <<config, obj>>

CallBertModelLogits ==
    /\ obj.kind = "BertModel"
    /\ obj.new.status = "Ok"
    /\ call = NoCall
    /\ \E inputs \in SingleInputs, sc \in FacadeScenarios :
          call' = FacadeCall("BertModel::logits", inputs, FullMask(inputs), sc.train, sc.freeze_layers, sc.ge, sc.seed,
                             BertModel_logits(obj.new.v, inputs, FullMask(inputs), sc.train, sc.freeze_layers, sc.ge,
                                              sc.seed))
    /\ UNCHANGED <<config, obj>>

CallBertModelLoss ==
    /\ obj.kind = "BertModel"
    /\ obj.new.status = "Ok"
    /\ call = NoCall
    /\ \E inputs \in SingleInputs, sc \in FacadeScenarios :
          call' = FacadeCall("BertModel::loss", inputs, FullMask(inputs), sc.train, sc.freeze_layers, sc.ge, sc.seed,
                             BertModel_loss(obj.new.v, inputs, FullMask(inputs), sc.train, sc.freeze_layers, sc.ge,
                                            sc.seed))
    /\ UNCHANGED <<config, obj>>

CallBertModelTopK ==
    /\ obj.kind = "BertModel"
    /\ obj.new.status = "Ok"
    /\ call = NoCall
    /\ \E inputs \in SingleInputs, ge \in BOOLEAN :
          call' = FacadeCall("BertModel::top_k", inputs, FullMask(inputs), FALSE, AllFrozen, ge, 0,
                             BertModel_top_k(obj.new.v, inputs, FullMask(inputs), ge))
    /\ UNCHANGED <<config, obj>>

\* The caller takes the outcome of the finished call.
Return ==
    /\ call # NoCall
    /\ call' = NoCall
    /\ UNCHANGED <<config, obj>>

Next ==
    \/ NewSqueezeBertEncoder
    \/ CallSqueezeBertEncoderEncode
    \/ CallSqueezeBertEncoderNLayers
    \/ NewBertSelfAttention
    \/ CallBertSelfAttentionForward
    \/ CallTransposeForScores
    \/ NewBertLayer
    \/ CallBertLayerForward
    \/ CallBertOutputForward
    \/ CallBertSelfOutputForward
    \/ NewBertModel
    \/ CallBertModelEncode
    \/ CallBertModelLogits
    \/ CallBertModelLoss
    \/ CallBertModelTopK
    \/ Return

Spec == Init /\ [][Next]_vars

(***************************************************************************)
(* Properties                                                              *)
(***************************************************************************)
EncodeDone == call.op = "SqueezeBertEncoder::encode"

EncodeOk == EncodeDone /\ call.out.result.status = "Ok"

\* C1: a SqueezeBertEncoder built with num_hidden_layers = L returns from
\* every successful encode a trace of exactly L + 1 entries, the first tagged
\* Embedding and the others encoder-layer outputs produced by layers
\* 0 .. L-1 in ascending order, and n_layers() is that same L + 1.
C1_TraceLength ==
    /\ EncodeOk =>
          LET trace == call.out.result.v
              L == config.num_hidden_layers
          IN /\ Len(trace) = L + 1
             /\ trace[1].tag = "Embedding"
             /\ \A i \in 2..(L + 1) : trace[i].tag = "EncoderWithAttention"
             /\ [i \in 1..L |-> call.out.executed[i].layer] = [i \in 1..L |-> i - 1]
             /\ Len(call.out.executed) = L
             /\ SqueezeBertEncoder_n_layers(obj.new.v) = Len(trace)
    /\ call.op = "SqueezeBertEncoder::n_layers" => call.out = config.num_hidden_layers + 1
    /\ (obj.kind = "BertModel" /\ obj.new.status = "Ok" /\ obj.new.v.encoder.variant = "SqueezeBert") =>
          obj.new.v.seq_classifiers.n_layers = config.num_hidden_layers + 1

C1_Witness == EncodeOk /\ config.num_hidden_layers = MaxLayers /\ Len(call.out.result.v) = MaxLayers + 1

\* C2: the internal [B, H, S] layout does not show at the boundary of
\* SqueezeBertEncoder.encode: every hidden state of the returned trace has
\* the input's shape [B, S, H], and the Embedding entry holds the input's
\* values, element for element.
C2_LayoutInvisible ==
    EncodeOk =>
        LET trace == call.out.result.v
        IN /\ \A i \in 1..Len(trace) : trace[i].output.shape = call.input.shape
           /\ Values(trace[1].output) = Values(call.input)

C2_Witness ==
    /\ EncodeOk
    /\ call.input.shape[2] # call.input.shape[3]
    /\ Len(call.out.result.v) > 1

LayerDone == call.op = "BertLayer::forward_t"

LayerOk == LayerDone /\ call.out.result.status = "Ok"

SublayerOrder == <<"attention", "post_attention", "intermediate", "output">>

\* C3: BertLayer.forward_t runs attention, post-attention
\* residual-normalize, intermediate expansion and output residual-normalize
\* in that order; the first residual-normalize gets the layer's input as
\* residual, the expansion consumes the post-attention output, the second
\* residual-normalize gets the post-attention output as residual, and the
\* entry returned carries the last output and the attention of the first step.
C3_SublayerOrder ==
    LayerDone =>
        LET log == call.out.log
        IN /\ Len(log) <= 4
           /\ \A i \in 1..Len(log) : log[i].sublayer = SublayerOrder[i]
           /\ \A i \in 1..(Len(log) - 1) : log[i].out.status = "Ok"
           /\ call.out.result.status = "Ok" =>
                 /\ Len(log) = 4
                 /\ log[1].hidden = call.input
                 /\ log[2].hidden = log[1].out.v[1]
                 /\ log[2].residual = call.input
                 /\ log[3].hidden = log[2].out.v
                 /\ log[4].hidden = log[3].out.v
                 /\ log[4].residual = log[2].out.v
                 /\ call.out.result.v = EncoderWithAttention(log[4].out.v, log[1].out.v[2])
                 \* the same, read off the expression of the returned tensor
                 /\ LET output == call.out.result.v.output
                        second_sum == output.args[1]
                        post_attention == second_sum.args[2]
                        first_sum == post_attention.args[1]
                    IN /\ output.op = "layer_norm" /\ output.name = "layer_0.output.layer_norm"
                       /\ second_sum.op = "add"
                       /\ post_attention.op = "layer_norm"
                       /\ post_attention.name = "layer_0.attention.output.layer_norm"
                       /\ first_sum.op = "add"
                       /\ first_sum.args[2] = call.input

C3_Witness == LayerOk /\ call.train /\ call.attention_mask.some

ResidualDone == call.op \in {"BertOutput::forward_t", "BertSelfOutput::forward_t"}

ResidualSelf == IF call.op = "BertOutput::forward_t" THEN obj.new.v.output ELSE obj.new.v.post_attention

\* C4: BertOutput.forward_t and BertSelfOutput.forward_t return
\* LayerNorm(Dropout(Linear(transformed)) + residual); with train = false the
\* dropout is the identity and the result is LayerNorm(Linear(transformed) + residual).
C4_ResidualNormalize ==
    (ResidualDone /\ call.out.status = "Ok") =>
        LET self == ResidualSelf
            linear == T("linear", <<call.hidden_states>>, self.dense.name, 0,
                        SetLastDim(call.hidden_states.shape, self.dense.out_features))
            dropped == T("dropout", <<linear>>, self.dense.name, call.seed, linear.shape)
            norm(x) == T("layer_norm", <<T("add", <<x, call.input>>, "", 0, x.shape)>>,
                         self.layer_norm.name, 0, x.shape)
        IN /\ call.train => call.out.v = norm(dropped)
           /\ ~call.train => call.out.v = norm(linear)

C4_WitnessOutput == call.op = "BertOutput::forward_t" /\ call.out.status = "Ok" /\ ~call.train

C4_WitnessSelfOutput == call.op = "BertSelfOutput::forward_t" /\ call.out.status = "Ok" /\ call.train

\* C5 (as claimed): BertSelfAttention::new rejects with an error, before any
\* parameter is created, a configuration whose hidden_size is not divisible
\* by num_attention_heads; every configuration it accepts has
\* num_attention_heads * attention_head_size = hidden_size.
C5_RejectsIndivisible ==
    obj.kind = "BertSelfAttention" =>
        /\ config.hidden_size % config.num_attention_heads # 0 => (obj.new.status = "Err" /\ obj.vars = <<>>)
        /\ obj.new.status = "Ok" =>
              obj.new.v.num_attention_heads * obj.new.v.attention_head_size = config.hidden_size

FaultReached(k) == call.fault = Fault("layer", k) /\ Len(call.out.executed) >= k

\* C10: a failing forward pass returns the error and nothing else. In
\* SqueezeBertEncoder.encode a failed mask conversion or layout permutation
\* lets no layer run, a failure of the k-th layer lets no later layer run,
\* and the result carries no trace entry; in BertLayer.forward_t a failing
\* sublayer is the last one run and the result carries no output.
C10_FailureAtomic ==
    /\ EncodeDone =>
          LET r == call.out.result
              executed == call.out.executed
          IN /\ r.status # "Ok" => DOMAIN r = {"status", "e"}
             /\ (call.fault.op = "mask" /\ call.attention_mask.some) => (r.status = "Err" /\ executed = <<>>)
             /\ (call.fault.op = "permute" /\ Len(executed) = 0) => r.status = "Err"
             /\ \A k \in 1..Len(obj.new.v.layers) :
                   FaultReached(k) => (r.status = "Err" /\ Len(executed) = k)
             /\ r.status = "Ok" => (call.fault = NoFault \/ (call.fault.op = "mask" /\ ~call.attention_mask.some))
    /\ LayerDone =>
          LET r == call.out.result
              log == call.out.log
          IN /\ r.status # "Ok" => (DOMAIN r = {"status", "e"} /\ log[Len(log)].out = r)
             /\ \A i \in 1..Len(log) :
                   (call.fault = log[i].sublayer \/ log[i].out.status # "Ok") => (r.status # "Ok" /\ Len(log) = i)

C10_WitnessEncode ==
    /\ EncodeDone
    /\ call.fault = Fault("layer", 1)
    /\ Len(obj.new.v.layers) = MaxLayers
    /\ call.out.result.status = "Err"
    /\ Len(call.out.executed) = 1

C10_WitnessLayer ==
    /\ LayerDone
    /\ call.fault = "intermediate"
    /\ call.out.result = Err("ComputationError")
    /\ Len(call.out.log) = 3

Unsupported == config.family = "XlmRoberta" /\ config.position_embeddings.kind = "Sinusoidal"

FacadeOps == {"BertModel::encode", "BertModel::logits", "BertModel::loss", "BertModel::top_k"}

\* C6 (as claimed): constructing a BertModel for the XlmRoberta family
\* with sinusoidal position embeddings fails at construction and is reported
\* as a ConfigurationError result, so no forward operation runs on a model
\* of that combination.
C6_ConfigurationError ==
    /\ (obj.kind = "BertModel" /\ Unsupported) => obj.new = Err("ConfigurationError")
    /\ call.op \in FacadeOps => ~Unsupported

ModelEncodeDone == call.op = "BertModel::encode" /\ call.out.result.status = "Ok"

TraceValues(trace) ==
    [i \in 1..Len(trace) |->
        IF trace[i].tag = "Embedding" THEN [tag |-> trace[i].tag, output |-> Values(trace[i].output)]
        ELSE [tag |-> trace[i].tag, output |-> Values(trace[i].output), attention |-> Values(trace[i].attention)]]

\* C7: with train = false, BertModel.encode returns for the same inputs,
\* mask and parameters a trace of the same length, tags and values under
\* each of the 8 settings of the freeze flags: the trace of every setting
\* equals the trace of the setting with no flag set.
C7_FreezeKeepsValues ==
    (ModelEncodeDone /\ ~call.train) =>
        LET unfrozen == BertModel_encode(obj.new.v, call.inputs, call.attention_mask, FALSE, NoneFrozen,
                                         call.ge, call.seed)
        IN /\ call.out.result.status = "Ok"
           /\ unfrozen.result.status = "Ok"
           /\ TraceValues(call.out.result.v) = TraceValues(unfrozen.result.v)

C7_Witness ==
    /\ ModelEncodeDone
    /\ ~call.train
    /\ call.ge
    /\ call.freeze_layers = AllFrozen
    /\ Len(call.out.result.v) >= 3
    /\ \E i \in 1..call.attention_mask.shape[2] : call.attention_mask.data[<<1, i>>] = 0
    /\ ~call.out.result.v[2].output.grad

\* C8: called with gradient tracking on, BertModel.encode runs the
\* embedding stage, the encoder stage and the layer dropout of every trace
\* entry in that order, each with tracking off exactly when its own flag
\* (embeddings, encoder, classifiers) is set.
C8_StageModes ==
    (ModelEncodeDone /\ call.ge) =>
        call.out.stages =
            <<Stage("embeddings", ~call.freeze_layers.embeddings), Stage("encoder", ~call.freeze_layers.encoder)>>
                \o [i \in 1..(config.num_hidden_layers + 1) |-> Stage("layers_dropout", ~call.freeze_layers.classifiers)]

C8_Witness ==
    /\ ModelEncodeDone
    /\ call.ge
    /\ call.freeze_layers = [embeddings |-> TRUE, encoder |-> FALSE, classifiers |-> TRUE]
    /\ call.out.stages[2].grad

LossDone == call.op = "BertModel::loss" /\ call.out.result.status = "Ok"

HeadsStage(stages) == stages[Len(stages)]

DropoutStages(stages) == SubSeq(stages, 3, Len(stages) - 1)

\* C9 (as claimed): the classifiers flag gates the layer dropout of encode
\* and not the heads: in BertModel.loss the heads' loss runs in the same
\* gradient mode whether the flag is set or clear.
C9_HeadsNotGated ==
    LossDone =>
        LET flipped == [call.freeze_layers EXCEPT !.classifiers = ~@]
            other == BertModel_loss(obj.new.v, call.inputs, call.attention_mask, call.train, flipped,
                                    call.ge, call.seed)
        IN /\ \A i \in 1..Len(DropoutStages(call.out.stages)) :
                 DropoutStages(call.out.stages)[i] = Stage("layers_dropout", call.ge /\ ~call.freeze_layers.classifiers)
           /\ HeadsStage(other.stages) = HeadsStage(call.out.stages)

\* C9 (amended): the classifiers flag gates the layer dropout of encode and,
\* in BertModel.loss, the heads' loss as well: both run with tracking off
\* when the flag is set and in the caller's mode when it is clear.
C9_HeadsGatedToo ==
    LossDone =>
        /\ Len(DropoutStages(call.out.stages)) = config.num_hidden_layers + 1
        /\ \A i \in 1..Len(DropoutStages(call.out.stages)) :
              DropoutStages(call.out.stages)[i] = Stage("layers_dropout", call.ge /\ ~call.freeze_layers.classifiers)
        /\ HeadsStage(call.out.stages) = Stage("seq_classifiers.loss", call.ge /\ ~call.freeze_layers.classifiers)

C9_Witness ==
    /\ LossDone
    /\ call.ge
    /\ call.freeze_layers = [embeddings |-> FALSE, encoder |-> FALSE, classifiers |-> TRUE]
    /\ ~HeadsStage(call.out.stages).grad

\* The first n positions of a [B, S, H] tensor.
Truncate(t, n) ==
    LET sh == <<t.shape[1], n, t.shape[3]>>
    IN Tensor(sh, [ix \in Idx(sh) |-> t.data[ix]], t.grad)

\* The same tensor with other content at the positions after the first n.
Repadded(t, n) == Tensor(t.shape, [ix \in Idx(t.shape) |-> IF ix[2] <= n THEN t.data[ix] ELSE 7 - t.data[ix]], t.grad)

\* Number of positions the boolean mask marks active (the same in every sequence).
ActivePositions(mask) == Cardinality({j \in 1..mask.shape[2] : mask.data[<<1, j>>] = 1})

PaddedEncode == EncodeOk /\ ~call.train /\ call.attention_mask.some /\ ActivePositions(call.attention_mask.v) >= 1

SamePrefix(trace, other, n) ==
    /\ Len(other) = Len(trace)
    /\ \A i \in 1..Len(trace) : Values(Truncate(trace[i].output, n)) = Values(Truncate(other[i].output, n))

EncoderBuilt == obj.kind = "SqueezeBertEncoder" /\ obj.new.status = "Ok"

\* The 16 names of one layer: weight and bias of every projection and
\* normalization.
PerLayerNames ==
    {m \o "." \o v : m \in {"attention.key", "attention.query", "attention.value", "post_attention.conv1d",
                            "post_attention.layer_norm", "intermediate.conv1d", "output.conv1d",
                            "output.layer_norm"},
                     v \in {"weight", "bias"}}

Created == {obj.vars[k] : k \in 1..Len(obj.vars)}

\* C12: SqueezeBertEncoder::new with num_hidden_layers = L in an empty store
\* creates exactly the variables layer_i.v for 0 <= i < L and v one of the 16
\* per-layer names, each once: no extras, no omissions, the layer
\* namespaces layer_0 .. layer_{L-1} distinct and contiguous.
C12_VariableSet ==
    EncoderBuilt =>
        LET L == config.num_hidden_layers
        IN /\ Created = {"layer_" \o ToString(i) \o "." \o v : i \in 0..(L - 1), v \in PerLayerNames}
           /\ Cardinality(PerLayerNames) = 16
           /\ Len(obj.vars) = 16 * L
           /\ Cardinality(Created) = 16 * L
           /\ Len(obj.new.v.layers) = L

C12_Witness == EncoderBuilt /\ config.num_hidden_layers >= 2 /\ Len(obj.vars) > 16

AttentionDone == call.op = "BertSelfAttention::forward_t"

AttentionOk == AttentionDone /\ call.out.status = "Ok"

\* A projection of x split into heads: [B, S, W] -> [B, heads, S, head_size].
SplitProjection(lin, x, heads, head_size) ==
    LET B == x.shape[1]
        S == x.shape[2]
        mixed == T("linear", <<x>>, lin.name, 0, <<B, S, lin.out_features>>)
    IN T("permute", <<T("view", <<mixed>>, "", 0, <<B, S, heads, head_size>>)>>, "", 0, <<B, heads, S, head_size>>)

\* Query times key-transpose, divided by sqrt(head_size), plus the mask if any.
PreSoftmaxScores(self, x, mask) ==
    LET B == x.shape[1]
        S == x.shape[2]
        heads == self.num_attention_heads
        head_size == self.attention_head_size
        q == SplitProjection(self.query, x, heads, head_size)
        k == SplitProjection(self.key, x, heads, head_size)
        kT == T("transpose", <<k>>, "", 0, <<B, heads, head_size, S>>)
        scaled == T("div_sqrt", <<T("matmul", <<q, kT>>, "", 0, <<B, heads, S, S>>)>>, "", head_size,
                    <<B, heads, S, S>>)
    IN IF mask.some THEN T("add", <<scaled, mask.v>>, "", 0, <<B, heads, S, S>>) ELSE scaled

ModelBuilt == obj.kind = "BertModel" /\ obj.new.status = "Ok"

EmbeddingVariants == {"Albert", "Bert", "Roberta", "Sinusoidal"}

EncoderVariants == {"Albert", "Bert", "SqueezeAlbert", "SqueezeBert"}

ExpectedEncoder(family) == IF family = "XlmRoberta" THEN "Bert" ELSE family

ExpectedEmbedding(family, kind) ==
    IF kind = "Sinusoidal" THEN "Sinusoidal"
    ELSE IF family \in {"Albert", "SqueezeAlbert"} THEN "Albert"
    ELSE IF family \in {"Bert", "SqueezeBert"} THEN "Bert"
    ELSE "Roberta"

\* C14: in every state of a BertModel's life, before, during and after any
\* encode, logits, loss or top_k call, the model holds one embedding variant
\* and one encoder variant, the ones its configuration determined at
\* construction: encoder Albert, Bert, SqueezeAlbert, SqueezeBert for the
\* families of those names and Bert for XlmRoberta; embedding Sinusoidal with
\* sinusoidal positions, else Albert for Albert and SqueezeAlbert, Bert for
\* Bert and SqueezeBert, Roberta for XlmRoberta.
C14_VariantsFixed ==
    /\ ModelBuilt =>
          /\ obj.new.v.encoder.variant \in EncoderVariants
          /\ obj.new.v.encoder.variant = ExpectedEncoder(config.family)
          /\ obj.new.v.embeddings.variant \in EmbeddingVariants
          /\ obj.new.v.embeddings.variant = ExpectedEmbedding(config.family, config.position_embeddings.kind)
    /\ call.op \in FacadeOps => ModelBuilt

C14_Witness == ModelBuilt /\ config.family = "XlmRoberta" /\ call.op = "BertModel::loss"

\* A tensor the caller handed in: hidden state, residual or logits mask.
HandedIn(t) == t.op = "input"

\* No in-place operation of the computation of t wrote to a tensor handed in.
WritesOwnOnly(t) == \A w \in Written(t) : ~HandedIn(w)

\* C15: a forward call through BertLayer, BertSelfAttention, BertSelfOutput
\* or BertOutput applies its in-place operations (the scaling and the mask
\* addition on the scores, the residual addition) only to tensors created
\* during that call: the input hidden state, the residual and the logits
\* mask are not written to, and the object with its parameters is the one
\* constructed.
C15_InputsUntouched ==
    /\ LayerOk =>
          /\ WritesOwnOnly(call.out.result.v.output)
          /\ WritesOwnOnly(call.out.result.v.attention)
          /\ \A i \in 1..Len(call.out.log) :
                call.out.log[i].sublayer # "attention" => WritesOwnOnly(call.out.log[i].out.v)
          /\ obj.new = BertLayer_new("layer_0", config).new
    /\ (ResidualDone /\ call.out.status = "Ok") => WritesOwnOnly(call.out.v)
    /\ AttentionOk =>
          /\ WritesOwnOnly(call.out.v[1])
          /\ WritesOwnOnly(call.out.v[2])
          /\ obj.new = BertSelfAttention_new("self", config).new

C15_Witness ==
    /\ LayerOk
    /\ ~call.train
    /\ call.attention_mask.some
    /\ Cardinality(Written(call.out.result.v.output)) >= 3

SplitDone == call.op = "BertSelfAttention::transpose_for_scores"

\* The tensor has the width the projections give: num_heads * head_size.
Projected(x) == x.shape[3] = obj.new.v.num_attention_heads * obj.new.v.attention_head_size

\* C16: for a tensor of shape [B, S, num_heads * head_size],
\* transpose_for_scores gives shape [B, num_heads, S, head_size] with element
\* (b, s, n * head_size + d) at (b, n, s, d), and the merge (permute
\* [0, 2, 1, 3], then view) gives the tensor back: shape [B, S, num_heads *
\* head_size], every element at its original position. The context that
\* forward_t returns has the shape of the projected hidden states.
C16_SplitMergeRoundTrip ==
    /\ (SplitDone /\ Projected(call.x)) =>
          LET B == call.x.shape[1]
              S == call.x.shape[2]
              heads == obj.new.v.num_attention_heads
              head_size == obj.new.v.attention_head_size
          IN /\ call.out.status = "Ok"
             /\ call.out.v.shape = <<B, heads, S, head_size>>
             /\ \A ix \in Idx(<<B, heads, S, head_size>>) :
                   call.out.v.data[ix] = call.x.data[<<ix[1], ix[3], (ix[2] - 1) * head_size + ix[4]>>]
             /\ call.merged.status = "Ok"
             /\ Values(call.merged.v) = Values(call.x)
    /\ AttentionOk =>
          call.out.v[1].shape = <<call.hidden_states.shape[1], call.hidden_states.shape[2], obj.new.v.all_head_size>>

C16_Witness ==
    /\ SplitDone
    /\ Projected(call.x)
    /\ obj.new.v.num_attention_heads >= 2
    /\ obj.new.v.attention_head_size >= 2
    /\ call.x.shape[2] >= 2

\* The logits mask of the call: the boolean mask converted, or none.
CallLogitsMask ==
    IF call.attention_mask.some THEN Some(from_bool_mask(call.attention_mask.v, FALSE).v) ELSE None

\* Layer k (counted from 1) of the encoder run on the hidden state the log
\* says it consumed.
LayerRun(k) ==
    SqueezeBertLayer_forward_t(obj.new.v.layers[k], call.out.executed[k].input, CallLogitsMask, call.train, call.ge,
                               call.seed, FALSE)

Transposed(t) == f_permute(t, <<0, 2, 1>>, call.ge, FALSE).v

\* C17: encode runs the layers in index order and chained. Layer 0 consumes
\* the transposed input, layer i >= 1 the hidden state layer i-1 produced;
\* trace entry i is the output of layer i-1 applied to the hidden state of
\* trace entry i-1; every layer gets the same logits mask, the conversion of
\* the boolean mask of the call, or no mask when none was given.
C17_LayersChained ==
    /\ EncodeDone =>
          LET executed == call.out.executed
          IN /\ \A k \in 1..Len(executed) : executed[k].layer = k - 1 /\ executed[k].mask = CallLogitsMask
             /\ Len(executed) >= 1 => executed[1].input = Transposed(call.input)
             /\ \A k \in 2..Len(executed) :
                   LayerRun(k - 1).status = "Ok" /\ executed[k].input = LayerRun(k - 1).v.output
    /\ EncodeOk =>
          LET trace == call.out.result.v
              L == Len(obj.new.v.layers)
          IN /\ Len(call.out.executed) = L
             /\ \A k \in 1..L :
                   /\ Values(call.out.executed[k].input) = Values(Transposed(trace[k].output))
                   /\ trace[k + 1].output = Transposed(LayerRun(k).v.output)
                   /\ trace[k + 1].attention = LayerRun(k).v.attention

C17_Witness ==
    /\ EncodeOk
    /\ call.attention_mask.some
    /\ Len(call.out.executed) >= 2
    /\ call.input.shape[2] >= 2

\* The trace the encoder stage of the finished encode call produced.
EncoderTrace ==
    Encoder_encode(obj.new.v.encoder,
                   BertEmbeddingLayer_forward_t(obj.new.v.embeddings, call.inputs, call.train,
                                                EmbeddingsStageMode(call.freeze_layers, call.ge), call.seed),
                   Some(call.attention_mask), call.train, EncoderStageMode(call.freeze_layers, call.ge), call.seed)

\* The trace is the encoder's trace `encoded` with the layer dropout applied
\* to every hidden state and nothing else changed.
DropoutOnly(trace, encoded, stages, train, mode, seed) ==
    /\ Len(trace) = Len(encoded)
    /\ Cardinality({k \in 1..Len(stages) : stages[k].stage = "layers_dropout"}) = Len(encoded)
    /\ \A i \in 1..Len(encoded) :
          /\ trace[i].tag = encoded[i].tag
          /\ DOMAIN trace[i] = DOMAIN encoded[i]
          /\ trace[i].tag # "Embedding" => trace[i].attention = encoded[i].attention
          /\ trace[i].output = TensorDropout_forward_t(encoded[i].output, train, mode, seed + i)
          /\ ~train => Values(trace[i].output) = Values(encoded[i].output)
    /\ trace[1].tag = "Embedding"

\* C18: BertModel.encode returns the encoder's trace with the layer dropout
\* applied once to the hidden state of every entry, the Embedding entry
\* included, and nothing else changed: same length, order and tags, the
\* attention tensors of the encoder-layer entries as the encoder gave them;
\* with train = false the hidden states keep their values too.
C18_LayerDropoutOnly ==
    ModelEncodeDone =>
        DropoutOnly(call.out.result.v, EncoderTrace.v, call.out.stages, call.train,
                    LayersDropoutStageMode(call.freeze_layers, call.ge), call.seed)

C18_Witness ==
    /\ ModelEncodeDone
    /\ call.train
    /\ Len(call.out.result.v) >= 2
    /\ Values(call.out.result.v[1].output) # Values(EncoderTrace.v[1].output)

====
